---- MODULE Spec2Model ----
(***************************************************************************)
(* Model of bellmanFord (src/bellman_ford.cc), one call of the function    *)
(* executed statement by statement: the reset of the caller's dist vector, *)
(* the write of dist[source], the V - 1 relaxation rounds edge by edge,    *)
(* and the verification pass edge by edge with its early return.           *)
(*                                                                         *)
(* Vertices are 0 .. V-1 as in the source; dist is a function on           *)
(* 0 .. size-1 (a std::vector<int>); an edge is the tuple <<u, v, w>>.     *)
(* INF keeps its source value.  With the weights drawn here every sum      *)
(* dist[u] + w the code evaluates lies strictly inside the 32-bit int      *)
(* range, so no run of the model depends on signed overflow.               *)
(***************************************************************************)
EXTENDS Integers, Sequences, FiniteSets

VARIABLES V, edges, source, prior, dist, i, j, pc, result, examined

vars == <<V, edges, source, prior, dist, i, j, pc, result, examined>>

\* const int INF = 1e9;
INF == 1000000000

\* Bounds of the model.
MaxV == 3
MaxE == 3
MaxW == 1

\* Edge weights: the small weights around zero, and one weight as large as
\* the sentinel (any int is a legal weight of tuple<int, int, int>).
Weights == (-MaxW .. MaxW) \cup {INF}

Vertices(n) == 0 .. n - 1

Edges(n) == Vertices(n) \X Vertices(n) \X Weights

EdgeLists(n) == UNION {[1 .. m -> Edges(n)] : m \in 0 .. MaxE}

\* What the caller's dist vector may hold before the call: PriorDist(0) is
\* the empty vector, PriorDist(n) a vector of n stale finite values.
PriorDist(n) == [x \in Vertices(n) |-> x - 1]

PriorDists == {PriorDist(0), PriorDist(MaxV + 1)}

\* The contract's precondition on V and source.
Valid == V > 0 /\ source \in Vertices(V)

----------------------------------------------------------------------------
(* The statements of bellmanFord.                                          *)

\* Mutant of AssignDist: dist.resize(V, INF), which keeps the old entries.
ResizeDist(d, n) == [x \in Vertices(n) |-> IF x \in DOMAIN d THEN d[x] ELSE INF]

\* dist.assign(V, INF): the old contents d are discarded.
AssignDist(d, n) == [x \in Vertices(n) |-> INF]

\* The left operand of && on lines 34 and 43: the sum is evaluated only
\* when it holds.
SumEvaluated(d, e) == d[e[1]] # INF

\* Mutant of Improves: the test without its dist[u] != INF guard.
ImprovesNoGuard(d, e) == d[e[1]] + e[3] < d[e[2]]

\* The relaxation test of lines 34 and 43.
Improves(d, e) == SumEvaluated(d, e) /\ d[e[1]] + e[3] < d[e[2]]

\* Mutant of RelaxEdge: the assignment without the comparison with dist[v].
RelaxEdgeUnconditional(d, e) ==
    IF SumEvaluated(d, e) THEN [d EXCEPT ![e[2]] = d[e[1]] + e[3]] ELSE d

\* Lines 34-36: one edge of a relaxation round.
RelaxEdge(d, e) == IF Improves(d, e) THEN [d EXCEPT ![e[2]] = d[e[1]] + e[3]] ELSE d

\* Mutants of Rounds: the loop bound off by one, either way.
RoundsOneMore(n) == n

RoundsOneLess(n) == n - 2

\* The number of relaxation rounds: for (int i = 1; i <= V - 1; ++i).
Rounds(n) == n - 1

\* The program point reached when round r is about to start.
LoopHead(r, n) == IF r <= Rounds(n) THEN "relax" ELSE "verify"

\* (prior records what the caller's dist vector held when the call began.)
\* The inputs of a call: any vertex count up to MaxV (0 is not a valid one),
\* any source up to MaxV (valid when below V), any edge list over 0 .. V-1.
Inputs ==
    /\ V \in 0 .. MaxV
    /\ source \in 0 .. MaxV
    /\ edges \in EdgeLists(V)
    /\ i = 0
    /\ j = 0
    /\ pc = "call"
    /\ result = FALSE
    /\ examined = <<>>

\* The callers in the source (lines 60-61, 145-147) pass a fresh, empty dist.
Init == Inputs /\ prior = PriorDist(0) /\ dist = prior

\* A caller that reuses its dist vector from one call to the next.
InitAnyPrior == Inputs /\ prior \in PriorDists /\ dist = prior

\* Line 27.
Assign ==
    /\ pc = "call"
    /\ dist' = AssignDist(dist, V)
    /\ pc' = "setsrc"
    /\ UNCHANGED <<V, edges, source, prior, i, j, result, examined>>

\* Line 28 with source inside the vector.
SetSource ==
    /\ pc = "setsrc"
    /\ source \in DOMAIN dist
    /\ dist' = [dist EXCEPT ![source] = 0]
    /\ i' = 1
    /\ j' = 1
    /\ pc' = LoopHead(1, V)
    /\ UNCHANGED <<V, edges, source, prior, result, examined>>

\* Line 28 with source outside the vector: operator[] out of bounds is
\* undefined behaviour.  The build either faults, or the write lands outside
\* the elements of dist and the call goes on.
SetSourceOutOfRange ==
    /\ pc = "setsrc"
    /\ source \notin DOMAIN dist
    /\ \/ /\ pc' = "crashed"
          /\ UNCHANGED <<i, j>>
       \/ /\ pc' = LoopHead(1, V)
          /\ i' = 1
          /\ j' = 1
    /\ UNCHANGED <<V, edges, source, prior, dist, result, examined>>

\* Lines 31-37: the next edge of relaxation round i.
RelaxStep ==
    /\ pc = "relax"
    /\ j <= Len(edges)
    /\ dist' = RelaxEdge(dist, edges[j])
    /\ j' = j + 1
    /\ examined' = Append(examined, j)
    /\ UNCHANGED <<V, edges, source, prior, i, pc, result>>

\* Line 30: round i is over, ++i and the loop test.
RoundEnd ==
    /\ pc = "relax"
    /\ j > Len(edges)
    /\ i' = i + 1
    /\ j' = 1
    /\ pc' = LoopHead(i + 1, V)
    /\ UNCHANGED <<V, edges, source, prior, dist, result, examined>>

\* Lines 40-46: the next edge of the verification pass.
VerifyStep ==
    /\ pc = "verify"
    /\ j <= Len(edges)
    /\ examined' = Append(examined, j)
    /\ IF Improves(dist, edges[j])
          THEN /\ result' = TRUE
               /\ pc' = "done"
               /\ j' = j
          ELSE /\ j' = j + 1
               /\ UNCHANGED <<result, pc>>
    /\ UNCHANGED <<V, edges, source, prior, dist, i>>

\* Line 48.
ReturnFalse ==
    /\ pc = "verify"
    /\ j > Len(edges)
    /\ result' = FALSE
    /\ pc' = "done"
    /\ UNCHANGED <<V, edges, source, prior, dist, i, j, examined>>

Next ==
    \/ Assign
    \/ SetSource
    \/ SetSourceOutOfRange
    \/ RelaxStep
    \/ RoundEnd
    \/ VerifyStep
    \/ ReturnFalse

Spec == Init /\ [][Next]_vars

\* One call on a dist vector that may hold stale contents.
SpecAnyPrior == InitAnyPrior /\ [][Next]_vars

----------------------------------------------------------------------------
(* The function as a whole, for comparing one call with another.           *)

RECURSIVE RelaxPass(_, _, _)
\* Lines 31-37: one relaxation round over es, from edge k on.
RelaxPass(d, es, k) ==
    IF k > Len(es) THEN d ELSE RelaxPass(RelaxEdge(d, es[k]), es, k + 1)

RECURSIVE RelaxRounds(_, _, _)
\* Lines 30-38: r relaxation rounds.
RelaxRounds(d, es, r) ==
    IF r <= 0 THEN d ELSE RelaxRounds(RelaxPass(d, es, 1), es, r - 1)

\* Lines 40-48: the value returned for the table d.
VerifyPass(d, es) == \E k \in 1 .. Len(es) : Improves(d, es[k])

\* Lines 26-49: the flag and the table of a call with vertex count n, edge
\* list es and source s, on a dist vector that held d0 before.
bellmanFord(d0, n, es, s) ==
    LET final == RelaxRounds([AssignDist(d0, n) EXCEPT ![s] = 0], es, Rounds(n))
    IN  [flag |-> VerifyPass(final, es), dist |-> final]

----------------------------------------------------------------------------
(* The graph-theoretic vocabulary of the claims, for the graph             *)
(* (V, edges).  Walk weights are exact below Cap and recorded as Cap from  *)
(* there on; they are only ever compared with values of at most INF, and   *)
(* a walk of the lengths used here loses less than INF by its negative     *)
(* edges, so every comparison is decided as on the exact weights.          *)

Cap == 2 * INF

SatAdd(x, w) == IF x >= Cap - w THEN Cap ELSE x + w

Range(es) == {es[k] : k \in 1 .. Len(es)}

\* The weights of the walks of one more edge.
ExtendWalks(f) ==
    [v \in Vertices(V) |->
        UNION {{SatAdd(x, e[3]) : x \in f[e[1]]} : e \in {a \in Range(edges) : a[2] = v}}]

RECURSIVE WalksExactly(_, _)
\* v |-> the weights of the walks from s to v of exactly k edges.
WalksExactly(s, k) ==
    IF k = 0 THEN [v \in Vertices(V) |-> IF v = s THEN {0} ELSE {}]
    ELSE ExtendWalks(WalksExactly(s, k - 1))

RECURSIVE WalksAcc(_, _, _)
WalksAcc(exact, acc, k) ==
    IF k = 0 THEN acc
    ELSE LET nxt == ExtendWalks(exact)
         IN  WalksAcc(nxt, [v \in Vertices(V) |-> acc[v] \cup nxt[v]], k - 1)

\* v |-> the weights of the walks from s to v of at most k edges.
Walks(s, k) == WalksAcc(WalksExactly(s, 0), WalksExactly(s, 0), k)

Min(S) == CHOOSE x \in S : \A y \in S : x <= y

\* The vertices with a path from source (a path has at most V - 1 edges).
Reach == {v \in Vertices(V) : Walks(source, V - 1)[v] # {}}

\* A cycle of negative total weight through a vertex reachable from source
\* (if there is one, there is one of at most V edges).
NegCycleReachable == \E c \in Reach : \E x \in Walks(c, V)[c] : x < 0

\* The shortest distance to a reachable vertex when no negative cycle is
\* reachable (a shortest walk is then a path).
ShortestDist(v) == Min(Walks(source, V - 1)[v])

\* A call on valid input, past its initialisation (lines 27-28).
Running == Valid /\ pc \in {"relax", "verify", "done"}

Returned == Valid /\ pc = "done"

\* Relaxation round i - 1 has just completed (round 0: the initialisation).
RoundDone == Valid /\ pc \in {"relax", "verify"} /\ j = 1

\* An edge is about to be examined.
AtEdge == Valid /\ pc \in {"relax", "verify"} /\ j \in 1 .. Len(edges)

\* The most steps a call on valid input can take.
ProgressBound == 3 + V * (Len(edges) + 1)

\* The edge indices of one full pass, and of n full passes.
OnePass == [k \in 1 .. Len(edges) |-> k]

RECURSIVE Passes(_)
Passes(n) == IF n <= 0 THEN <<>> ELSE OnePass \o Passes(n - 1)

\* How far the call has got: the statements before the loops, then one unit
\* per loop test and per edge examined.
Progress ==
    CASE pc = "call" -> 0
      [] pc = "setsrc" -> 1
      [] pc = "relax" -> 2 + (i - 1) * (Len(edges) + 1) + (j - 1)
      [] pc = "verify" -> 2 + (i - 1) * (Len(edges) + 1) + (j - 1)
      [] OTHER -> ProgressBound

\* The table after the initialisation and one relaxation round over es.
FirstRound(es) == RelaxPass([AssignDist(prior, V) EXCEPT ![source] = 0], es, 1)

Reverse(es) == [k \in 1 .. Len(es) |-> es[Len(es) + 1 - k]]

\* The edge lists that are permutations of es.
EdgePermutations(es) ==
    {[k \in 1 .. Len(es) |-> es[p[k]]] :
        p \in {q \in [1 .. Len(es) -> 1 .. Len(es)] :
                  \A a, b \in 1 .. Len(es) : q[a] = q[b] => a = b}}

----------------------------------------------------------------------------
(* The claims.                                                             *)

\* C1: whenever bellmanFord returns false on valid input, dist[v] is the
\* minimum total weight over all walks from source to v for every vertex v
\* reachable from source (the minimum exists, and dist[source] = 0), and
\* dist[v] = INF for every vertex not reachable from source.
C1_ShortestDistances ==
    (Returned /\ ~result) =>
        /\ ~NegCycleReachable
        /\ dist[source] = 0
        /\ \A v \in Vertices(V) :
              IF v \in Reach THEN dist[v] = ShortestDist(v) ELSE dist[v] = INF

\* C2: on valid input bellmanFord returns true if and only if the graph has
\* a cycle of negative total weight reachable from source.
C2_FlagIffNegativeCycle == Returned => (result <=> NegCycleReachable)

\* C3: a call with V <= 0 or source outside [0, V) fails with InvalidInput
\* before any relaxation begins: it never gets past its entry, no entry of
\* the distance table is written, no edge is examined, no flag is returned.
C3_InvalidInputRejected ==
    ~Valid =>
        /\ pc \in {"call", "InvalidInput"}
        /\ dist = prior
        /\ examined = <<>>

\* C4: on valid input a vertex with no path from source holds INF in every
\* state after the initialisation, also in the returned table and whether or
\* not a negative cycle is reported; an edge leaving such a vertex never
\* passes the relaxation test, so it causes no update and no return of true.
C4_UnreachableStayInf ==
    /\ Running => \A v \in Vertices(V) \ Reach : dist[v] = INF
    /\ AtEdge => (edges[j][1] \notin Reach => ~Improves(dist, edges[j]))
    /\ (Returned /\ result) => edges[j][1] \in Reach

\* C4 witness: a call has returned on a graph with a negative cycle among
\* vertices that have no path from source.
C4_Witness ==
    /\ Returned
    /\ \E k, m \in 1 .. Len(edges) :
          /\ edges[k][1] \notin Reach
          /\ edges[k][2] = edges[m][1]
          /\ edges[m][2] = edges[k][1]
          /\ edges[k][1] # edges[m][1]
          /\ edges[k][3] + edges[m][3] < 0

C5_PassesWithEarlyReturn ==
    /\ Valid => (pc = "done" \/ ENABLED Next)
    /\ Valid => Progress \in 0 .. ProgressBound
    /\ Returned =>
          \E m \in 0 .. Len(edges) :
              /\ examined = Passes(V - 1) \o SubSeq(OnePass, 1, m)
              /\ \A k \in 1 .. m - 1 : ~Improves(dist, edges[k])
              /\ IF result THEN m >= 1 /\ Improves(dist, edges[m])
                           ELSE m = Len(edges)

\* The step part of C5 as amended: every step of a call moves it forward.
C5_Advances == [][Valid => Progress' > Progress]_vars

C6_EdgeOrderIrrelevant ==
    Returned =>
        \A es \in EdgePermutations(edges) :
            LET r == bellmanFord(PriorDist(0), V, es, source)
            IN  /\ r.flag = result
                /\ ~result => r.dist = dist

\* C6 witness: a call has returned false on an edge list whose order matters
\* within a round: the first round relaxes an edge of the list only because
\* an earlier edge of it was relaxed, so that the reversed list leaves another
\* table after one round.
C6_Witness ==
    /\ Returned
    /\ ~result
    /\ FirstRound(edges) # FirstRound(Reverse(edges))

\* The state part of C7: the returned flag and table are those of a call on
\* the same inputs with any other contents of the dist vector before.
C7_ResultOfInputsOnly ==
    Returned =>
        \A d0 \in PriorDists \ {prior} :
            bellmanFord(d0, V, edges, source) = [flag |-> result, dist |-> dist]

\* The step part of C7: no step of the call changes the edge list.
C7_EdgesUnchanged == [][edges' = edges]_vars

\* C7: the flag and the table a call returns are a function of (V, edges,
\* source) alone: they are those of a call on the same inputs whatever the
\* dist vector held before (it is reset to V entries of INF); and the call
\* leaves the edge list unchanged.
C7_Pure == []C7_ResultOfInputsOnly /\ C7_EdgesUnchanged

\* C7 witness: a call that started on a dist vector with stale finite
\* entries has returned a table in which a vertex is still at INF.
C7_Witness ==
    /\ Returned
    /\ prior = PriorDist(MaxV + 1)
    /\ Len(edges) >= 2
    /\ \E v \in Vertices(V) : dist[v] = INF
    /\ \E v \in Vertices(V) : dist[v] < 0

\* C8: after relaxation round k (k in 0 .. V-1) on valid input, dist[v] is at
\* most the minimum total weight of the walks from source to v of at most k
\* edges (INF when there is none); and when no negative cycle is reachable
\* from source, dist[v] is not below the shortest distance to v (an entry
\* still at the sentinel INF is read as infinite, below nothing).
C8_RoundInvariant ==
    RoundDone =>
        \A v \in Vertices(V) :
            /\ LET W == Walks(source, i - 1)[v]
               IN  dist[v] <= (IF W = {} THEN INF ELSE Min(W))
            /\ (~NegCycleReachable /\ v \in Reach /\ dist[v] # INF) =>
                  dist[v] >= ShortestDist(v)

\* The state part of C9: every entry other than INF is the weight of a walk
\* from source to that vertex, of at most as many edges as were examined.
C9_EntriesAreWalkWeights ==
    Running =>
        LET W == Walks(source, Len(examined))
        IN  \A v \in Vertices(V) : dist[v] # INF => dist[v] \in W[v]

\* The step parts of C9.
C9_NeverIncreases ==
    [][Running => \A v \in Vertices(V) : dist'[v] <= dist[v]]_vars

C9_VerifyWritesNothing == [][pc = "verify" => dist' = dist]_vars

\* C9: on valid input, after the initialisation and also when a negative
\* cycle is reported, no entry of dist ever increases, every entry other
\* than INF is the total weight of an actual walk from source to that
\* vertex, and the verification pass writes no entry of dist.
C9_Monotone ==
    []C9_EntriesAreWalkWeights /\ C9_NeverIncreases /\ C9_VerifyWritesNothing

\* C9 witness: a call has returned true with an entry of dist that was
\* lowered more than once (it is below every weight of a walk of one edge).
C9_Witness ==
    /\ Returned
    /\ result
    /\ \E v \in Vertices(V) : dist[v] < -MaxW

\* C10: the sum dist[u] + w is used only when dist[u] # INF, and whenever
\* bellmanFord returns false on valid input (no sum overflowing) every vertex
\* reachable from source ends with dist[v] # INF, also when its shortest walk
\* weighs INF or more.
C10_SentinelNeverADistance ==
    /\ AtEdge => (SumEvaluated(dist, edges[j]) => dist[edges[j][1]] # INF)
    /\ (Returned /\ ~result) => \A v \in Reach : dist[v] # INF

====
